---- MODULE Spec2Model ----
(***************************************************************************)
(* Session lifecycle and user accounts of the web-starter API             *)
(* (apps/api/src): the users and sessions tables, the repositories that    *)
(* query them and the services that commit.  Every service call runs on    *)
(* its own unit of work and commits before it returns, so each call is one *)
(* atomic step on the committed tables.                                    *)
(*                                                                         *)
(* Encoding: row ids and tokens are positive integers, 0 stands for None;  *)
(* timestamps are clock ticks, NoTime stands for a NULL timestamp.         *)
(* ip_address and user_agent of a session are informational columns that   *)
(* no query reads; they are left out.                                      *)
(***************************************************************************)
EXTENDS Integers, FiniteSets, Sequences, TLC

VARIABLES users, sessions, now, nextUserId, nextSessionId, tokensIssued, op,
          everRevoked, revokedTokens, calls, uow, callCount

vars == <<users, sessions, now, nextUserId, nextSessionId, tokensIssued, op,
          everRevoked, revokedTokens, calls, uow, callCount>>

----------------------------------------------------------------------------
(* Bounds of the model *)

MaxUsers == 2
MaxSessions == 3
NumTokens == 3
MaxTime == 2
HourTicks == 1
MaxHours == 1
MaxSkew == 2
MaxProcs == 2
MaxFields == 2
MaxCalls == 2

None == 0
NoTime == -1
NoName == "<null>"

UserIds == 1..MaxUsers
SessionIds == 1..MaxSessions
Tokens == 1..NumTokens
ExpiresHours == 0..MaxHours

\* Addresses that differ only in case are different addresses.
EmailList == <<"ann@x.io", "Ann@x.io", "bob@x.io", "Bob@x.io">>
NameList == <<"ann", "bob", "cat", "dan">>
Emails == {EmailList[i] : i \in 1..MaxUsers}
Usernames == {NameList[i] : i \in 1..(MaxUsers - 1)}
Passwords == {"Secret123"}
Salts == {1, 2}

\* The passwords a login is attempted with: the real ones and a wrong one.
Candidates == Passwords \cup {"Guess4567"}

\* The addresses and names update_user is called with: those in use and one
\* that no registered user has.
UpdateEmails == {EmailList[i] : i \in 1..(MaxUsers + 1)}
UpdateUsernames == {NameList[i] : i \in 1..MaxUsers}

\* The ids a caller presents: those of the registered users and one that
\* matches no row.
PresentedIds == 1..(MaxUsers + 1)

----------------------------------------------------------------------------
(* The record of the last call: its name, arguments, result, the error it  *)
(* raised ("" for none) and whether it issued a commit.                    *)

Call(name, arg, result, error, commit) ==
    [name |-> name, arg |-> arg, result |-> result, error |-> error, commit |-> commit]

----------------------------------------------------------------------------
(* Session entity: models/session.py *)

is_expired(s, t) == t > s.expires_at

is_revoked(s) == s.revoked_at # NoTime

M_is_valid_no_expiry(s, t) == ~is_revoked(s)

is_valid(s, t) == ~is_expired(s, t) /\ ~is_revoked(s)

M_revoke_keeps_first(s, t) ==
    IF s.revoked_at # NoTime THEN s ELSE [s EXCEPT !.revoked_at = t]

M_revoke_noop(s, t) == s

M_revoke_toggle(s, t) == [s EXCEPT !.revoked_at = IF @ = NoTime THEN t ELSE NoTime]

revoke(s, t) == [s EXCEPT !.revoked_at = t]

create_expiration(t, hours) == t + hours * HourTicks

Session(uid, token, expires, t) ==
    [user_id |-> uid, token |-> token, expires_at |-> expires,
     revoked_at |-> NoTime, created_at |-> t]

----------------------------------------------------------------------------
(* Password hasher: core/security/password.py.  A hash string carries the  *)
(* algorithm, the salt and the digest of (password, salt).                 *)

(* The empty string is the hash string with no algorithm; a string the     *)
(* library does not recognise names another algorithm or lacks its digest. *)

EmptyHash == [alg |-> "", salt |-> 0, digest |-> <<>>]

M_context_hash_unsalted(password, salt) ==
    [alg |-> "argon2id", salt |-> 0, digest |-> <<password, 0>>]

\* CryptContext.hash with the argon2id scheme and the salt it has drawn.
context_hash(password, salt) ==
    [alg |-> "argon2id", salt |-> salt, digest |-> <<password, salt>>]

\* The strings CryptContext.verify identifies and parses.
WellFormed(hashed) == hashed.alg = "argon2id" /\ Len(hashed.digest) = 2

\* CryptContext.verify: hashes the candidate with the salt the stored hash
\* carries and compares the digests; it raises on a string it cannot
\* identify or parse.
context_verify(password, hashed) ==
    IF ~WellFormed(hashed) THEN [result |-> FALSE, error |-> "ValueError"]
    ELSE [result |-> hashed.digest = <<password, hashed.salt>>, error |-> ""]

\* PasswordHasher.hash: refuses the empty password.
hash_error(password) == IF password = "" THEN "ValueError" ELSE ""

hash(password, salt) == context_hash(password, salt)

M_verify_outcome_uncaught(password, hashed) ==
    IF password = "" \/ hashed = EmptyHash THEN [result |-> FALSE, error |-> ""]
    ELSE context_verify(password, hashed)

\* PasswordHasher.verify: False for an empty password or hash, and False
\* when the library raises.
verify_outcome(password, hashed) ==
    IF password = "" \/ hashed = EmptyHash THEN [result |-> FALSE, error |-> ""]
    ELSE IF context_verify(password, hashed).error # ""
         THEN [result |-> FALSE, error |-> ""]
         ELSE context_verify(password, hashed)

verify(password, hashed) == verify_outcome(password, hashed).result

\* The module-level functions call the default hasher.
hash_password(password, salt) == hash(password, salt)

verify_password(password, hashed) == verify(password, hashed)

----------------------------------------------------------------------------
(* Query results *)

\* Result.scalar_one_or_none(): None for no row, the row for one row,
\* MultipleResultsFound for more.
MultipleResults(rows) == Cardinality(rows) > 1

ScalarOneOrNone(rows) == IF rows = {} THEN None ELSE CHOOSE r \in rows : TRUE

Restrict(table, ids) == [i \in ids |-> table[i]]

----------------------------------------------------------------------------
(* SessionRepository: db/repositories/session.py *)

get_by_token_rows(ss, token) == {i \in DOMAIN ss : ss[i].token = token}

get_by_token(ss, token) == ScalarOneOrNone(get_by_token_rows(ss, token))

get_active_session_rows(ss, token, t) ==
    {i \in DOMAIN ss : /\ ss[i].token = token
                       /\ ss[i].expires_at > t
                       /\ ss[i].revoked_at = NoTime}

get_active_session_by_token(ss, token, t) ==
    ScalarOneOrNone(get_active_session_rows(ss, token, t))

get_user_sessions(ss, uid, include_expired, include_revoked, t) ==
    {i \in DOMAIN ss : /\ ss[i].user_id = uid
                       /\ (include_expired \/ ss[i].expires_at > t)
                       /\ (include_revoked \/ ss[i].revoked_at = NoTime)}

M_created_at_desc_ascending(ss, ids) ==
    {s \in [1..Cardinality(ids) -> ids] :
        /\ \A a, b \in 1..Cardinality(ids) : a # b => s[a] # s[b]
        /\ \A a, b \in 1..Cardinality(ids) :
              a < b => ss[s[a]].created_at <= ss[s[b]].created_at}

\* order_by(Session.created_at.desc()): the lists the database may return
\* for the selected rows; rows created at the same instant come in any
\* order.
created_at_desc(ss, ids) ==
    {s \in [1..Cardinality(ids) -> ids] :
        /\ \A a, b \in 1..Cardinality(ids) : a # b => s[a] # s[b]
        /\ \A a, b \in 1..Cardinality(ids) :
              a < b => ss[s[a]].created_at >= ss[s[b]].created_at}

M_repo_revoke_session_owner(ss, token, t) ==
    LET sid == ScalarOneOrNone({i \in DOMAIN ss : ss[i].token = token})
    IN  IF sid = None THEN ss
        ELSE [i \in DOMAIN ss |-> IF ss[i].user_id = ss[sid].user_id
                                  THEN [ss[i] EXCEPT !.revoked_at = t] ELSE ss[i]]

repo_revoke_session(ss, token, t) ==
    LET sid == get_by_token(ss, token)
    IN  IF sid = None THEN ss ELSE [ss EXCEPT ![sid] = revoke(ss[sid], t)]

repo_revoke_user_sessions(ss, uid, t) ==
    LET found == get_user_sessions(ss, uid, FALSE, FALSE, t)
    IN  [i \in DOMAIN ss |-> IF i \in found THEN revoke(ss[i], t) ELSE ss[i]]

M_cleanup_rows_inclusive(ss, t) ==
    {i \in DOMAIN ss : ss[i].expires_at <= t \/ ss[i].revoked_at # NoTime}

M_cleanup_rows_all(ss, t) == DOMAIN ss

cleanup_rows(ss, t) ==
    {i \in DOMAIN ss : ss[i].expires_at < t \/ ss[i].revoked_at # NoTime}

repo_cleanup_expired_sessions(ss, t) == Restrict(ss, DOMAIN ss \ cleanup_rows(ss, t))

----------------------------------------------------------------------------
(* UserRepository: db/repositories/user.py *)

M_email_exists_live(us, email) ==
    \E i \in DOMAIN us : us[i].email = email /\ us[i].deleted_at = NoTime

M_email_exists_never(us, email) == FALSE

email_exists(us, email) == \E i \in DOMAIN us : us[i].email = email

username_exists(us, username) == \E i \in DOMAIN us : us[i].username = username

get_by_email_rows(us, email) == {i \in DOMAIN us : us[i].email = email}

get_by_email(us, email) == ScalarOneOrNone(get_by_email_rows(us, email))

\* BaseRepository.get: the primary-key lookup.
get(table, id) == IF id \in DOMAIN table THEN id ELSE None

----------------------------------------------------------------------------
(* BaseRepository.get_multi: db/repositories/base.py *)

\* What getattr(User, name, None) finds: a mapped column, an attribute that
\* is not a column (a property, a relationship, a method), or nothing.
UserColumns == {"id", "email", "username", "hashed_password", "is_active",
                "is_superuser", "first_name", "last_name", "created_at",
                "updated_at", "deleted_at"}

UserAttributes == UserColumns \cup {"sessions", "full_name", "is_deleted",
                                    "soft_delete", "restore"}

\* The order_by arguments tried: none, the id column, a property, and a
\* misspelt column name.
OrderBys == {NoName, "id", "full_name", "emial"}

Skips == 0..1
Limits == 1..MaxUsers

\* The orders in which the database may return the rows: by ascending id
\* under ORDER BY id, any order without an ORDER BY.
RowOrders(ids, by_id) ==
    {s \in [1..Cardinality(ids) -> ids] :
        /\ \A a, b \in 1..Cardinality(ids) : a # b => s[a] # s[b]
        /\ by_id => \A a, b \in 1..Cardinality(ids) : a < b => s[a] < s[b]}

\* OFFSET skip LIMIT limit.
Page(rows, skip, limit) ==
    SubSeq(rows, skip + 1, IF skip + limit < Len(rows) THEN skip + limit ELSE Len(rows))

\* The error of get_multi: order_by(None), which getattr yields for a name
\* that is no attribute, is accepted and drops the ordering; an attribute
\* that is not a column is refused by order_by.
get_multi_error(order_by) ==
    IF order_by \in UserAttributes \ UserColumns THEN "ArgumentError" ELSE ""

----------------------------------------------------------------------------
(* Database constraints: models/session.py and models/user.py *)

M_SessionInsertRejected_fk_only(us, ss, row) == row.user_id \notin DOMAIN us

\* sessions.token is UNIQUE and sessions.user_id references users.id.
SessionInsertRejected(us, ss, row) ==
    \/ row.user_id \notin DOMAIN us
    \/ \E i \in DOMAIN ss : ss[i].token = row.token

M_UserUniqueViolation_none(us, uid, row) == FALSE

\* users.email and users.username are UNIQUE over all rows (NULL usernames
\* do not collide): the row, written under id uid, collides with another.
UserUniqueViolation(us, uid, row) ==
    \E i \in DOMAIN us \ {uid} :
        \/ us[i].email = row.email
        \/ (row.username # NoName /\ us[i].username = row.username)

\* ON DELETE CASCADE / cascade="all, delete-orphan": the sessions of a
\* deleted user go with it.
CascadeDelete(ss, uid) == Restrict(ss, {i \in DOMAIN ss : ss[i].user_id # uid})

----------------------------------------------------------------------------
\* The callers that may have a call in progress at the same time, each on
\* a unit of work of its own, and a caller with no call in progress.
Procs == 1..MaxProcs

Idle == [pc |-> "idle"]

\* No request-scoped unit of work is open.
NoUnitOfWork == [pc |-> "none"]

\* The empty database.
InitEmpty ==
    /\ users = <<>>
    /\ sessions = <<>>
    /\ now = 0
    /\ nextUserId = 1
    /\ nextSessionId = 1
    /\ tokensIssued = 0
    /\ op = Call("init", None, None, "", FALSE)
    /\ everRevoked = {}
    /\ revokedTokens = {}
    /\ calls = [p \in Procs |-> Idle]
    /\ uow = NoUnitOfWork
    /\ callCount = 0

----------------------------------------------------------------------------
(* SessionService: services/session.py *)

\* create_session: token from secrets.token_urlsafe, expires_at from the
\* clock, then BaseService.create (add, flush, refresh, commit).
CreateSession(uid, hours, token) ==
    /\ nextSessionId <= MaxSessions
    /\ LET row == Session(uid, token, create_expiration(now, hours), now)
       IN  IF SessionInsertRejected(users, sessions, row)
           THEN /\ op' = Call("create_session", token, None, "IntegrityError", FALSE)
                /\ UNCHANGED <<sessions, nextSessionId, tokensIssued>>
           ELSE /\ sessions' = sessions @@ (nextSessionId :> row)
                /\ nextSessionId' = nextSessionId + 1
                /\ tokensIssued' = IF token > tokensIssued THEN token ELSE tokensIssued
                /\ op' = Call("create_session", token, nextSessionId, "", TRUE)
    /\ UNCHANGED <<users, now, nextUserId>>

\* validate_session: the filtered query reads the clock, then is_valid
\* reads it again, skew ticks later.
ValidateSession(token, skew) ==
    /\ now + skew <= MaxTime
    /\ now' = now + skew
    /\ LET rows == get_active_session_rows(sessions, token, now)
           sid == ScalarOneOrNone(rows)
       IN  IF MultipleResults(rows)
           THEN op' = Call("validate_session", token, None, "MultipleResultsFound", FALSE)
           ELSE IF sid = None
           THEN op' = Call("validate_session", token, None, "", FALSE)
           ELSE op' = Call("validate_session", token,
                           IF is_valid(sessions[sid], now') THEN sid ELSE None,
                           "", FALSE)
    /\ UNCHANGED <<users, sessions, nextUserId, nextSessionId, tokensIssued>>

\* revoke_session: commits only when the repository found the token.
RevokeSession(token) ==
    /\ LET rows == get_by_token_rows(sessions, token)
           revoked == rows # {}
       IN  IF MultipleResults(rows)
           THEN /\ op' = Call("revoke_session", token, FALSE, "MultipleResultsFound", FALSE)
                /\ UNCHANGED sessions
           ELSE /\ sessions' = repo_revoke_session(sessions, token, now)
                /\ op' = Call("revoke_session", token, revoked, "", revoked)
    /\ UNCHANGED <<users, now, nextUserId, nextSessionId, tokensIssued>>

RevokeUserSessions(uid) ==
    /\ sessions' = repo_revoke_user_sessions(sessions, uid, now)
    /\ op' = Call("revoke_user_sessions", uid,
                  Cardinality(get_user_sessions(sessions, uid, FALSE, FALSE, now)),
                  "", TRUE)
    /\ UNCHANGED <<users, now, nextUserId, nextSessionId, tokensIssued>>

CleanupExpiredSessions ==
    /\ sessions' = repo_cleanup_expired_sessions(sessions, now)
    /\ op' = Call("cleanup_expired_sessions", None,
                  Cardinality(cleanup_rows(sessions, now)), "", TRUE)
    /\ UNCHANGED <<users, now, nextUserId, nextSessionId, tokensIssued>>

\* SessionService.get_user_sessions hands the repository's list on.
GetUserSessions(uid, include_expired, include_revoked) ==
    /\ \E rows \in created_at_desc(sessions,
                    get_user_sessions(sessions, uid, include_expired, include_revoked, now)) :
          op' = Call("get_user_sessions",
                     [user_id |-> uid, include_expired |-> include_expired,
                      include_revoked |-> include_revoked],
                     rows, "", FALSE)
    /\ UNCHANGED <<users, sessions, now, nextUserId, nextSessionId, tokensIssued>>

\* BaseService.delete inherited by SessionService: commits whether or not
\* the row existed.
DeleteSession(sid) ==
    /\ sessions' = Restrict(sessions, DOMAIN sessions \ {sid})
    /\ op' = Call("delete_session", sid, sid \in DOMAIN sessions, "", TRUE)
    /\ UNCHANGED <<users, now, nextUserId, nextSessionId, tokensIssued>>

\* The clock.
Tick ==
    /\ now < MaxTime
    /\ now' = now + 1
    /\ op' = Call("tick", None, None, "", FALSE)
    /\ UNCHANGED <<users, sessions, nextUserId, nextSessionId, tokensIssued>>

----------------------------------------------------------------------------
(* UserService: services/user.py *)

\* schemas/user.py: the validated input of create_user.
UserCreate == [email : Emails, username : Usernames \cup {NoName},
               password : Passwords, first_name : {NoName}, last_name : {NoName},
               is_active : BOOLEAN, is_superuser : {FALSE}]

\* models/user.py: the row create_user builds; deleted_at starts NULL.
User(data, salt) ==
    [email |-> data.email, username |-> data.username,
     hashed_password |-> hash_password(data.password, salt),
     first_name |-> data.first_name, last_name |-> data.last_name,
     is_active |-> data.is_active, is_superuser |-> data.is_superuser,
     deleted_at |-> NoTime]

\* create_user: the two existence checks, then BaseService.create.
CreateUser(data, salt) ==
    /\ nextUserId <= MaxUsers
    /\ IF email_exists(users, data.email)
          \/ (data.username # NoName /\ username_exists(users, data.username))
       THEN /\ op' = Call("create_user", data, None, "DuplicateRecord", FALSE)
            /\ UNCHANGED <<users, nextUserId>>
       ELSE /\ users' = users @@ (nextUserId :> User(data, salt))
            /\ nextUserId' = nextUserId + 1
            /\ op' = Call("create_user", data, nextUserId, "", TRUE)
    /\ UNCHANGED <<sessions, now, nextSessionId, tokensIssued>>

\* BaseService.delete inherited by UserService: the user's sessions are
\* deleted with the row.
DeleteUser(uid) ==
    /\ users' = Restrict(users, DOMAIN users \ {uid})
    /\ sessions' = IF uid \in DOMAIN users THEN CascadeDelete(sessions, uid) ELSE sessions
    /\ op' = Call("delete_user", uid, uid \in DOMAIN users, "", TRUE)
    /\ UNCHANGED <<now, nextUserId, nextSessionId, tokensIssued>>

\* schemas/user.py: the validated input of update_user.  Every field is
\* optional; fields holds the names of the fields that are given (not None),
\* and a field that is not given carries NoName or FALSE in the record.
\* A call gives at most MaxFields fields.
UpdateFields == {"email", "username", "password", "first_name", "last_name",
                 "is_active", "is_superuser"}

Given(data, field) == field \in data.fields

UserUpdate ==
    {d \in [fields : {f \in SUBSET UpdateFields : Cardinality(f) <= MaxFields},
            email : UpdateEmails \cup {NoName},
            username : UpdateUsernames \cup {NoName},
            password : Passwords \cup {NoName},
            first_name : {"Ann", NoName}, last_name : {"Lee", NoName},
            is_active : BOOLEAN, is_superuser : BOOLEAN] :
        /\ ("email" \in d.fields) = (d.email # NoName)
        /\ ("username" \in d.fields) = (d.username # NoName)
        /\ ("password" \in d.fields) = (d.password # NoName)
        /\ ("first_name" \in d.fields) = (d.first_name # NoName)
        /\ ("last_name" \in d.fields) = (d.last_name # NoName)
        /\ ("is_active" \notin d.fields) => ~d.is_active
        /\ ("is_superuser" \notin d.fields) => ~d.is_superuser}

M_Updated_overwrites(user, data, salt) ==
    [email |-> IF Given(data, "email") THEN data.email ELSE user.email,
     username |-> IF Given(data, "username") THEN data.username ELSE user.username,
     hashed_password |-> IF Given(data, "password")
                         THEN hash_password(data.password, salt)
                         ELSE user.hashed_password,
     first_name |-> data.first_name, last_name |-> data.last_name,
     is_active |-> data.is_active, is_superuser |-> data.is_superuser,
     deleted_at |-> user.deleted_at]

\* update_user, lines 50-70: the assignments to the loaded row.
Updated(user, data, salt) ==
    [email |-> IF Given(data, "email") THEN data.email ELSE user.email,
     username |-> IF Given(data, "username") THEN data.username ELSE user.username,
     hashed_password |-> IF Given(data, "password")
                         THEN hash_password(data.password, salt)
                         ELSE user.hashed_password,
     first_name |-> IF Given(data, "first_name") THEN data.first_name
                    ELSE user.first_name,
     last_name |-> IF Given(data, "last_name") THEN data.last_name ELSE user.last_name,
     is_active |-> IF Given(data, "is_active") THEN data.is_active ELSE user.is_active,
     is_superuser |-> IF Given(data, "is_superuser") THEN data.is_superuser
                      ELSE user.is_superuser,
     deleted_at |-> user.deleted_at]

\* update_user: get_by_id_or_fail, the existence checks for a changed email
\* and a changed username, the assignments, then BaseService.update.
UpdateUser(uid, data, salt) ==
    /\ IF get(users, uid) = None
       THEN /\ op' = Call("update_user", [id |-> uid, data |-> data], None,
                          "RecordNotFound", FALSE)
            /\ UNCHANGED users
       ELSE IF \/ /\ Given(data, "email")
                  /\ data.email # users[uid].email
                  /\ email_exists(users, data.email)
               \/ /\ Given(data, "username")
                  /\ data.username # users[uid].username
                  /\ username_exists(users, data.username)
       THEN /\ op' = Call("update_user", [id |-> uid, data |-> data], None,
                          "DuplicateRecord", FALSE)
            /\ UNCHANGED users
       ELSE /\ users' = [users EXCEPT ![uid] = Updated(users[uid], data, salt)]
            /\ op' = Call("update_user", [id |-> uid, data |-> data], uid, "", TRUE)
    /\ UNCHANGED <<sessions, now, nextUserId, nextSessionId, tokensIssued>>

\* get_many / get_multi on the users table.
GetMulti(skip, limit, order_by) ==
    /\ \E rows \in RowOrders(DOMAIN users, order_by = "id") :
          op' = Call("get_multi", [skip |-> skip, limit |-> limit, order_by |-> order_by],
                     IF get_multi_error(order_by) = "" THEN Page(rows, skip, limit)
                     ELSE <<>>,
                     get_multi_error(order_by), FALSE)
    /\ UNCHANGED <<users, sessions, now, nextUserId, nextSessionId, tokensIssued>>

M_authenticate_inactive(us, email, password) ==
    LET uid == get_by_email(us, email)
    IN  IF uid = None THEN None
        ELSE IF ~verify_password(password, us[uid].hashed_password) THEN None
        ELSE uid

M_authenticate_skips_deleted(us, email, password) ==
    LET uid == get_by_email(us, email)
    IN  IF uid = None THEN None
        ELSE IF us[uid].deleted_at # NoTime THEN None
        ELSE IF ~verify_password(password, us[uid].hashed_password) THEN None
        ELSE IF ~us[uid].is_active THEN None
        ELSE uid

authenticate(us, email, password) ==
    LET uid == get_by_email(us, email)
    IN  IF uid = None THEN None
        ELSE IF ~verify_password(password, us[uid].hashed_password) THEN None
        ELSE IF ~us[uid].is_active THEN None
        ELSE uid

Authenticate(email, password) ==
    /\ op' = Call("authenticate", [email |-> email, password |-> password],
                  authenticate(users, email, password),
                  IF MultipleResults(get_by_email_rows(users, email))
                  THEN "MultipleResultsFound" ELSE "",
                  FALSE)
    /\ UNCHANGED <<users, sessions, now, nextUserId, nextSessionId, tokensIssued>>

\* deactivate_user / activate_user: get_by_id_or_fail, the assignment to
\* is_active, then BaseService.update.
set_active(user, value) == [user EXCEPT !.is_active = value]

M_SetActive_revokes_sessions(name, uid, value) ==
    /\ get(users, uid) # None
    /\ users' = [users EXCEPT ![uid] = set_active(users[uid], value)]
    /\ sessions' = IF value THEN sessions
                   ELSE repo_revoke_user_sessions(sessions, uid, now)
    /\ op' = Call(name, uid, uid, "", TRUE)
    /\ UNCHANGED <<now, nextUserId, nextSessionId, tokensIssued>>

SetActive(name, uid, value) ==
    /\ IF get(users, uid) = None
       THEN /\ op' = Call(name, uid, None, "RecordNotFound", FALSE)
            /\ UNCHANGED users
       ELSE /\ users' = [users EXCEPT ![uid] = set_active(users[uid], value)]
            /\ op' = Call(name, uid, uid, "", TRUE)
    /\ UNCHANGED <<sessions, now, nextUserId, nextSessionId, tokensIssued>>

DeactivateUser(uid) == SetActive("deactivate_user", uid, FALSE)

ActivateUser(uid) == SetActive("activate_user", uid, TRUE)

M_soft_delete_deactivates(user, t) ==
    [user EXCEPT !.deleted_at = t, !.is_active = FALSE]

\* SoftDeleteMixin.soft_delete: deleted_at takes the clock.
soft_delete(user, t) == [user EXCEPT !.deleted_at = t]

SoftDeleteUser(uid) ==
    /\ IF get(users, uid) = None
       THEN /\ op' = Call("soft_delete_user", uid, None, "RecordNotFound", FALSE)
            /\ UNCHANGED users
       ELSE /\ users' = [users EXCEPT ![uid] = soft_delete(users[uid], now)]
            /\ op' = Call("soft_delete_user", uid, uid, "", TRUE)
    /\ UNCHANGED <<sessions, now, nextUserId, nextSessionId, tokensIssued>>

----------------------------------------------------------------------------

\* The database once MaxUsers users have registered (create_user called with
\* the i-th address, the first of them with a username): the state the
\* session operations start from.
RegisteredUsers ==
    [i \in UserIds |->
        User([email |-> EmailList[i],
              username |-> IF i = 1 THEN NameList[1] ELSE NoName,
              password |-> CHOOSE p \in Passwords : TRUE,
              first_name |-> NoName, last_name |-> NoName,
              is_active |-> TRUE, is_superuser |-> FALSE],
             CHOOSE salt \in Salts : TRUE)]

Init ==
    /\ users = RegisteredUsers
    /\ sessions = <<>>
    /\ now = 0
    /\ nextUserId = MaxUsers + 1
    /\ nextSessionId = 1
    /\ tokensIssued = 0
    /\ op = Call("init", None, None, "", FALSE)
    /\ everRevoked = {}
    /\ revokedTokens = {}
    /\ calls = [p \in Procs |-> Idle]
    /\ uow = NoUnitOfWork
    /\ callCount = 0

\* Tokens are opaque strings of which only equality is ever tested, so a
\* 32-byte draw of secrets.token_urlsafe (and a token a caller presents) is
\* either one of the tokens issued so far, 1..tokensIssued, or a token never
\* issued, for which the least such token stands.
TokenDraws == {t \in Tokens : t <= tokensIssued + 1}

\* The revocation history, kept on the side of the calls: everRevoked holds
\* the tokens for which revoke_session has returned true, revokedTokens those
\* of them that no later create_session has issued again.
Untracked == UNCHANGED <<everRevoked, revokedTokens, calls, uow, callCount>>

TrackRevocations ==
    LET revoked == op'.name = "revoke_session" /\ op'.error = "" /\ op'.result = TRUE
        issued == op'.name = "create_session" /\ op'.error = ""
    IN  /\ everRevoked' = IF revoked THEN everRevoked \cup {op'.arg} ELSE everRevoked
        /\ revokedTokens' = IF revoked THEN revokedTokens \cup {op'.arg}
                            ELSE IF issued THEN revokedTokens \ {op'.arg}
                            ELSE revokedTokens
        /\ UNCHANGED <<calls, uow, callCount>>

\* The session lifecycle, from the registered users on.
Next ==
    \/ \E uid \in UserIds, hours \in ExpiresHours, token \in TokenDraws :
          CreateSession(uid, hours, token) /\ Untracked
    \/ \E token \in TokenDraws, skew \in 0..MaxSkew :
          ValidateSession(token, skew) /\ Untracked
    \/ \E token \in TokenDraws : RevokeSession(token) /\ Untracked
    \/ \E uid \in UserIds : RevokeUserSessions(uid) /\ Untracked
    \/ CleanupExpiredSessions /\ Untracked
    \/ \E sid \in SessionIds : DeleteSession(sid) /\ Untracked
    \/ Tick /\ Untracked
    \/ \E uid \in UserIds : DeleteUser(uid) /\ Untracked

Spec == Init /\ [][Next]_vars

\* The same calls with the revocation history kept.
NextTracked ==
    \/ \E uid \in UserIds, hours \in ExpiresHours, token \in TokenDraws :
          CreateSession(uid, hours, token) /\ TrackRevocations
    \/ \E token \in TokenDraws, skew \in 0..MaxSkew :
          ValidateSession(token, skew) /\ TrackRevocations
    \/ \E token \in TokenDraws : RevokeSession(token) /\ TrackRevocations
    \/ \E uid \in UserIds : RevokeUserSessions(uid) /\ TrackRevocations
    \/ CleanupExpiredSessions /\ TrackRevocations
    \/ \E sid \in SessionIds : DeleteSession(sid) /\ TrackRevocations
    \/ Tick /\ TrackRevocations
    \/ \E uid \in UserIds : DeleteUser(uid) /\ TrackRevocations

SpecTracked == Init /\ [][NextTracked]_vars

\* Registration, from the empty database on.
NextUser ==
    \/ \E data \in UserCreate, salt \in Salts : CreateUser(data, salt) /\ Untracked
    \/ \E uid \in UserIds : DeleteUser(uid) /\ Untracked
    \/ \E email \in Emails, password \in Candidates :
          Authenticate(email, password) /\ Untracked
    \/ \E skip \in Skips, limit \in Limits, order_by \in OrderBys :
          GetMulti(skip, limit, order_by) /\ Untracked

SpecUser == InitEmpty /\ [][NextUser]_vars

\* A call that counts against the MaxCalls calls of a run.
Counted ==
    /\ callCount < MaxCalls
    /\ callCount' = callCount + 1
    /\ UNCHANGED <<everRevoked, revokedTokens, calls, uow>>

\* The salt the hasher draws when update_user hashes a password; no salt is
\* drawn when no password is given.
SaltDraws(data) == IF Given(data, "password") THEN Salts ELSE {CHOOSE salt \in Salts : TRUE}

----------------------------------------------------------------------------
(* Concurrent callers.  Each call runs on a session of its own, so until    *)
(* it flushes it reads the committed rows only.  A flush that meets a       *)
(* unique index waits for the competing transaction to end, so the flush    *)
(* and the commit that follows it are one step on the committed rows.       *)

CountedCall ==
    /\ callCount < MaxCalls
    /\ callCount' = callCount + 1
    /\ UNCHANGED <<everRevoked, revokedTokens, uow>>

Returning == UNCHANGED <<everRevoked, revokedTokens, uow, callCount>>

\* The updates that race: those that give an email or a username.
RaceUpdate == {d \in UserUpdate : d.fields # {} /\ d.fields \subseteq {"email", "username"}}

\* create_user up to the construction of the row: the two existence checks.
BeginCreateUser(p, data) ==
    /\ calls[p] = Idle
    /\ nextUserId <= MaxUsers
    /\ IF email_exists(users, data.email)
          \/ (data.username # NoName /\ username_exists(users, data.username))
       THEN /\ op' = Call("create_user", data, None, "DuplicateRecord", FALSE)
            /\ UNCHANGED calls
       ELSE /\ calls' = [calls EXCEPT ![p] = [pc |-> "insert", data |-> data]]
            /\ UNCHANGED op
    /\ UNCHANGED <<users, sessions, now, nextUserId, nextSessionId, tokensIssued>>

\* create_user from the construction of the row on: hash_password, then
\* BaseService.create, whose flush raises IntegrityError on a unique index.
InsertUser(p, salt) ==
    /\ calls[p].pc = "insert"
    /\ calls' = [calls EXCEPT ![p] = Idle]
    /\ LET row == User(calls[p].data, salt)
       IN  IF UserUniqueViolation(users, None, row)
           THEN /\ op' = Call("create_user", calls[p].data, None, "IntegrityError", FALSE)
                /\ UNCHANGED <<users, nextUserId>>
           ELSE /\ nextUserId <= MaxUsers
                /\ users' = users @@ (nextUserId :> row)
                /\ nextUserId' = nextUserId + 1
                /\ op' = Call("create_user", calls[p].data, nextUserId, "", TRUE)
    /\ UNCHANGED <<sessions, now, nextSessionId, tokensIssued>>

\* update_user up to the assignments: get_by_id_or_fail and the existence
\* checks; loaded is the row as the session read it.
BeginUpdateUser(p, uid, data) ==
    /\ calls[p] = Idle
    /\ IF get(users, uid) = None
       THEN /\ op' = Call("update_user", [id |-> uid, data |-> data], None,
                          "RecordNotFound", FALSE)
            /\ UNCHANGED calls
       ELSE IF \/ /\ Given(data, "email")
                  /\ data.email # users[uid].email
                  /\ email_exists(users, data.email)
               \/ /\ Given(data, "username")
                  /\ data.username # users[uid].username
                  /\ username_exists(users, data.username)
       THEN /\ op' = Call("update_user", [id |-> uid, data |-> data], None,
                          "DuplicateRecord", FALSE)
            /\ UNCHANGED calls
       ELSE /\ calls' = [calls EXCEPT ![p] = [pc |-> "flush", id |-> uid, data |-> data,
                                              loaded |-> users[uid]]]
            /\ UNCHANGED op
    /\ UNCHANGED <<users, sessions, now, nextUserId, nextSessionId, tokensIssued>>

\* The UPDATE a flush emits: the columns whose value the assignments
\* changed on the loaded row, written over the row as it is now.
Flushed(current, loaded, assigned) ==
    [f \in DOMAIN current |-> IF assigned[f] # loaded[f] THEN assigned[f] ELSE current[f]]

\* update_user from the assignments on: BaseService.update, whose flush
\* raises IntegrityError on a unique index.
FlushUpdate(p, salt) ==
    /\ calls[p].pc = "flush"
    /\ calls' = [calls EXCEPT ![p] = Idle]
    /\ LET uid == calls[p].id
           arg == [id |-> uid, data |-> calls[p].data]
           row == Flushed(users[uid], calls[p].loaded,
                          Updated(calls[p].loaded, calls[p].data, salt))
       IN  IF UserUniqueViolation(users, uid, row)
           THEN /\ op' = Call("update_user", arg, None, "IntegrityError", FALSE)
                /\ UNCHANGED users
           ELSE /\ users' = [users EXCEPT ![uid] = row]
                /\ op' = Call("update_user", arg, uid, "", TRUE)
    /\ UNCHANGED <<sessions, now, nextUserId, nextSessionId, tokensIssued>>

\* The database once the first n users have registered.
InitRegistered(n) ==
    /\ users = Restrict(RegisteredUsers, 1..n)
    /\ sessions = <<>>
    /\ now = 0
    /\ nextUserId = n + 1
    /\ nextSessionId = 1
    /\ tokensIssued = 0
    /\ op = Call("init", None, None, "", FALSE)
    /\ everRevoked = {}
    /\ revokedTokens = {}
    /\ calls = [p \in Procs |-> Idle]
    /\ uow = NoUnitOfWork
    /\ callCount = 0

NextRace ==
    \/ \E p \in Procs, data \in UserCreate : BeginCreateUser(p, data) /\ CountedCall
    \/ \E p \in Procs, salt \in Salts : InsertUser(p, salt) /\ Returning
    \/ \E p \in Procs, uid \in PresentedIds, data \in RaceUpdate :
          BeginUpdateUser(p, uid, data) /\ CountedCall
    \/ \E p \in Procs :
          /\ calls[p].pc = "flush"
          /\ \E salt \in SaltDraws(calls[p].data) : FlushUpdate(p, salt) /\ Returning
    \/ \E uid \in PresentedIds : DeactivateUser(uid) /\ Counted
    \/ \E uid \in PresentedIds : ActivateUser(uid) /\ Counted
    \/ \E uid \in PresentedIds : SoftDeleteUser(uid) /\ Counted

\* Calls of the user service that overlap, on any number of registered users.
SpecRace == (\E n \in 0..MaxUsers : InitRegistered(n)) /\ [][NextRace]_vars

----------------------------------------------------------------------------
(* The request-scoped unit of work: core/database/session.py.  While a     *)
(* request has a session open, uow.users and uow.sessions are the tables   *)
(* as that session sees them, flushed changes included; users and sessions *)
(* stay the committed tables.  uow.log lists what get_db has called on the *)
(* session on the way out.                                                 *)

M_repository_commits_delete(name) == name = "repository.delete"

\* No repository method calls session.commit().
repository_commits(name) == FALSE

M_service_commits_not_delete(name, result) ==
    IF name = "revoke_session" THEN result = TRUE ELSE name # "delete"

\* BaseService.create / update / delete and the session service commit
\* before they return; revoke_session only when the repository found the
\* token.
service_commits(name, result) ==
    IF name = "revoke_session" THEN result = TRUE ELSE TRUE

Commits(service, name, result) ==
    IF service THEN service_commits(name, result) ELSE repository_commits(name)

M_get_db_step_commit_in_finally(pc, kind) ==
    IF pc \in {"returned", "raised"} THEN "commit" ELSE "close"

\* get_db after the yield: commit when the body returned, rollback in the
\* except clause when it raised an Exception, close in the finally clause.
\* An exception that is no Exception (a cancellation) passes the except
\* clause by.
get_db_step(pc, kind) ==
    IF pc = "returned" THEN "commit"
    ELSE IF pc = "raised" /\ kind = "Exception" THEN "rollback"
    ELSE "close"

\* async with async_session_maker() as session: yield session.
GetDbOpen ==
    /\ uow.pc \in {"none", "closed"}
    /\ uow' = [pc |-> "body", kind |-> "", users |-> users, sessions |-> sessions,
               log |-> <<>>]
    /\ op' = Call("get_db", None, None, "", FALSE)
    /\ UNCHANGED <<users, sessions, now, nextUserId, nextSessionId, tokensIssued>>

\* A call made by the request body on its session: the repository method
\* alone, or the service method that wraps it.  us and ss are the tables
\* after the flush.  A flush that fails has the transaction rolled back and
\* the exception leaves the body.
UowCall(service, name, arg, us, ss, result, error) ==
    /\ uow.pc = "body"
    /\ IF error # ""
       THEN /\ uow' = [uow EXCEPT !.pc = "raised", !.kind = "Exception",
                                  !.users = users, !.sessions = sessions]
            /\ op' = Call(name, arg, result, error, FALSE)
            /\ UNCHANGED <<users, sessions>>
       ELSE /\ uow' = [uow EXCEPT !.users = us, !.sessions = ss]
            /\ op' = Call(name, arg, result, "", Commits(service, name, result))
            /\ IF Commits(service, name, result)
               THEN users' = us /\ sessions' = ss
               ELSE UNCHANGED <<users, sessions>>
    /\ UNCHANGED <<now, nextUserId>>

\* BaseRepository.create of a session row / SessionService.create_session.
UowCreate(service, uid, hours, token) ==
    /\ nextSessionId <= MaxSessions
    /\ LET row == Session(uid, token, create_expiration(now, hours), now)
           rejected == SessionInsertRejected(uow.users, uow.sessions, row)
       IN  /\ UowCall(service, IF service THEN "create_session" ELSE "repository.create",
                      token, uow.users,
                      IF rejected THEN uow.sessions
                      ELSE uow.sessions @@ (nextSessionId :> row),
                      IF rejected THEN None ELSE nextSessionId,
                      IF rejected THEN "IntegrityError" ELSE "")
           /\ nextSessionId' = IF rejected THEN nextSessionId ELSE nextSessionId + 1
           /\ tokensIssued' = IF ~rejected /\ token > tokensIssued THEN token
                              ELSE tokensIssued

\* An assignment to is_active of a loaded user, then BaseRepository.update /
\* BaseService.update.
UowUpdate(service, uid, value) ==
    /\ uow.pc = "body"
    /\ get(uow.users, uid) # None
    /\ UowCall(service, IF service THEN "update" ELSE "repository.update",
               [id |-> uid, is_active |-> value],
               [uow.users EXCEPT ![uid] = set_active(uow.users[uid], value)],
               uow.sessions, uid, "")
    /\ UNCHANGED <<nextSessionId, tokensIssued>>

\* BaseRepository.delete / BaseService.delete of a session.
UowDelete(service, sid) ==
    /\ uow.pc = "body"
    /\ UowCall(service, IF service THEN "delete" ELSE "repository.delete", sid,
               uow.users, Restrict(uow.sessions, DOMAIN uow.sessions \ {sid}),
               sid \in DOMAIN uow.sessions, "")
    /\ UNCHANGED <<nextSessionId, tokensIssued>>

\* BaseRepository.delete_by_field("user_id", uid) on the sessions.
UowDeleteByField(uid) ==
    /\ uow.pc = "body"
    /\ UowCall(FALSE, "repository.delete_by_field", uid, uow.users,
               Restrict(uow.sessions,
                        {i \in DOMAIN uow.sessions : uow.sessions[i].user_id # uid}),
               Cardinality({i \in DOMAIN uow.sessions : uow.sessions[i].user_id = uid}),
               "")
    /\ UNCHANGED <<nextSessionId, tokensIssued>>

UowRevokeSession(service, token) ==
    /\ uow.pc = "body"
    /\ UowCall(service, IF service THEN "revoke_session" ELSE "repository.revoke_session",
               token, uow.users, repo_revoke_session(uow.sessions, token, now),
               get_by_token(uow.sessions, token) # None,
               IF MultipleResults(get_by_token_rows(uow.sessions, token))
               THEN "MultipleResultsFound" ELSE "")
    /\ UNCHANGED <<nextSessionId, tokensIssued>>

UowRevokeUserSessions(service, uid) ==
    /\ uow.pc = "body"
    /\ UowCall(service,
               IF service THEN "revoke_user_sessions"
               ELSE "repository.revoke_user_sessions",
               uid, uow.users, repo_revoke_user_sessions(uow.sessions, uid, now),
               Cardinality(get_user_sessions(uow.sessions, uid, FALSE, FALSE, now)), "")
    /\ UNCHANGED <<nextSessionId, tokensIssued>>

UowCleanup(service) ==
    /\ uow.pc = "body"
    /\ UowCall(service,
               IF service THEN "cleanup_expired_sessions"
               ELSE "repository.cleanup_expired_sessions",
               None, uow.users, repo_cleanup_expired_sessions(uow.sessions, now),
               Cardinality(cleanup_rows(uow.sessions, now)), "")
    /\ UNCHANGED <<nextSessionId, tokensIssued>>

\* update_user up to the username check: user.email is assigned on the
\* loaded row once the email check has passed.
EmailAssigned(user, data) ==
    IF Given(data, "email") /\ data.email # user.email
    THEN [user EXCEPT !.email = data.email] ELSE user

\* UserService.update_user called by the request body.  The queries of the
\* existence checks run on the session (autoflush is off); an assignment
\* made before a check raises stays on the row the session has loaded and
\* goes to the database with the next flush.  The body may handle the
\* DuplicateRecord and go on, or let it pass.
UowUpdateUser(uid, data, salt) ==
    /\ uow.pc = "body"
    /\ LET arg == [id |-> uid, data |-> data]
           loaded == uow.users[uid]
       IN  IF get(uow.users, uid) = None
           THEN /\ op' = Call("update_user", arg, None, "RecordNotFound", FALSE)
                /\ UNCHANGED <<uow, users>>
           ELSE IF /\ Given(data, "email")
                   /\ data.email # loaded.email
                   /\ email_exists(uow.users, data.email)
           THEN /\ op' = Call("update_user", arg, None, "DuplicateRecord", FALSE)
                /\ UNCHANGED <<uow, users>>
           ELSE IF /\ Given(data, "username")
                   /\ data.username # loaded.username
                   /\ username_exists(uow.users, data.username)
           THEN /\ op' = Call("update_user", arg, None, "DuplicateRecord", FALSE)
                /\ uow' = [uow EXCEPT !.users[uid] = EmailAssigned(loaded, data)]
                /\ UNCHANGED users
           ELSE /\ op' = Call("update_user", arg, uid, "", TRUE)
                /\ uow' = [uow EXCEPT !.users[uid] = Updated(loaded, data, salt)]
                /\ users' = uow'.users
                /\ sessions' = uow.sessions
    /\ (op'.error # "") => UNCHANGED sessions
    /\ UNCHANGED <<now, nextUserId, nextSessionId, tokensIssued>>

\* session.rollback() called by the body: the flushed changes that were not
\* committed are gone.  The record keeps the call the rollback follows and
\* whether there was anything to discard.
UowRollback ==
    /\ uow.pc = "body"
    /\ uow' = [uow EXCEPT !.users = users, !.sessions = sessions]
    /\ op' = Call("rollback", op.name,
                  uow.users # users \/ uow.sessions # sessions, "", FALSE)
    /\ UNCHANGED <<users, sessions, now, nextUserId, nextSessionId, tokensIssued>>

\* The request body comes to its end.
BodyReturns ==
    /\ uow.pc = "body"
    /\ uow' = [uow EXCEPT !.pc = "returned"]
    /\ op' = Call("return", None, None, "", FALSE)
    /\ UNCHANGED <<users, sessions, now, nextUserId, nextSessionId, tokensIssued>>

\* The request body raises: an Exception, or a BaseException such as the
\* cancellation of the request.
BodyRaises(kind) ==
    /\ uow.pc = "body"
    /\ uow' = [uow EXCEPT !.pc = "raised", !.kind = kind]
    /\ op' = Call("raise", kind, None, kind, FALSE)
    /\ UNCHANGED <<users, sessions, now, nextUserId, nextSessionId, tokensIssued>>

\* await session.commit() after the yield.
GetDbCommit ==
    /\ uow.pc \in {"returned", "raised"}
    /\ get_db_step(uow.pc, uow.kind) = "commit"
    /\ users' = uow.users
    /\ sessions' = uow.sessions
    /\ uow' = [uow EXCEPT !.pc = "finally", !.log = Append(@, "commit")]
    /\ op' = Call("get_db.commit", None, None, "", TRUE)
    /\ UNCHANGED <<now, nextUserId, nextSessionId, tokensIssued>>

\* await session.rollback() in the except clause; the exception is raised
\* again.
GetDbRollback ==
    /\ uow.pc \in {"returned", "raised"}
    /\ get_db_step(uow.pc, uow.kind) = "rollback"
    /\ uow' = [uow EXCEPT !.pc = "finally", !.users = users, !.sessions = sessions,
                          !.log = Append(@, "rollback")]
    /\ op' = Call("get_db.rollback", None, None, uow.kind, FALSE)
    /\ UNCHANGED <<users, sessions, now, nextUserId, nextSessionId, tokensIssued>>

\* await session.close() in the finally clause: what was not committed is
\* discarded with the session.
GetDbClose ==
    /\ uow.pc \in {"returned", "raised", "finally"}
    /\ get_db_step(uow.pc, uow.kind) = "close"
    /\ uow' = [pc |-> "closed", kind |-> uow.kind, log |-> Append(uow.log, "close")]
    /\ op' = Call("get_db.close", None, None, uow.kind, FALSE)
    /\ UNCHANGED <<users, sessions, now, nextUserId, nextSessionId, tokensIssued>>

\* The database a request finds: the registered users, a session of the
\* second user created with expires_hours = 0 one tick ago, and a session of
\* the first user created now for an hour.
InitUow ==
    /\ users = RegisteredUsers
    /\ sessions = (1 :> Session(2, 1, create_expiration(0, 0), 0))
                   @@ (2 :> Session(1, 2, create_expiration(1, 1), 1))
    /\ now = 1
    /\ nextUserId = MaxUsers + 1
    /\ nextSessionId = 3
    /\ tokensIssued = 2
    /\ op = Call("init", None, None, "", FALSE)
    /\ everRevoked = {}
    /\ revokedTokens = {}
    /\ calls = [p \in Procs |-> Idle]
    /\ uow = NoUnitOfWork
    /\ callCount = 0

InBody == UNCHANGED <<everRevoked, revokedTokens, calls, callCount>>

CountedInBody ==
    /\ callCount < MaxCalls
    /\ callCount' = callCount + 1
    /\ UNCHANGED <<everRevoked, revokedTokens, calls>>

NextUow ==
    \/ GetDbOpen /\ InBody
    \/ \E service \in BOOLEAN, uid \in UserIds, hours \in ExpiresHours,
          token \in TokenDraws : UowCreate(service, uid, hours, token) /\ CountedInBody
    \/ \E service \in BOOLEAN, uid \in UserIds, value \in BOOLEAN :
          UowUpdate(service, uid, value) /\ CountedInBody
    \/ \E service \in BOOLEAN, sid \in SessionIds :
          UowDelete(service, sid) /\ CountedInBody
    \/ \E uid \in UserIds : UowDeleteByField(uid) /\ CountedInBody
    \/ \E service \in BOOLEAN, token \in TokenDraws :
          UowRevokeSession(service, token) /\ CountedInBody
    \/ \E service \in BOOLEAN, uid \in UserIds :
          UowRevokeUserSessions(service, uid) /\ CountedInBody
    \/ \E service \in BOOLEAN : UowCleanup(service) /\ CountedInBody
    \/ \E uid \in PresentedIds, data \in RaceUpdate :
          \E salt \in SaltDraws(data) : UowUpdateUser(uid, data, salt) /\ CountedInBody
    \/ UowRollback /\ InBody
    \/ BodyReturns /\ InBody
    \/ \E kind \in {"Exception", "BaseException"} : BodyRaises(kind) /\ InBody
    \/ GetDbCommit /\ InBody
    \/ GetDbRollback /\ InBody
    \/ GetDbClose /\ InBody

\* The steps of get_db after the yield.
GetDbExit == (GetDbCommit \/ GetDbRollback \/ GetDbClose) /\ InBody

SpecUow == InitUow /\ [][NextUow]_vars

\* get_db runs on once the body has left it.
SpecUowFair == SpecUow /\ WF_vars(GetDbExit)

\* Account maintenance on the registered users, one call after the other.
NextAccount ==
    \/ \E uid \in PresentedIds, data \in UserUpdate :
          \E salt \in SaltDraws(data) : UpdateUser(uid, data, salt) /\ Counted
    \/ \E uid \in PresentedIds : DeactivateUser(uid) /\ Counted
    \/ \E uid \in PresentedIds : ActivateUser(uid) /\ Counted
    \/ \E uid \in PresentedIds : SoftDeleteUser(uid) /\ Counted
    \/ \E email \in UpdateEmails, password \in Candidates :
          Authenticate(email, password) /\ Untracked

SpecAccount == Init /\ [][NextAccount]_vars

\* Registration and renaming next to soft-deleted users, one call after the
\* other, on any number of registered users.
NextReserved ==
    \/ \E uid \in PresentedIds : SoftDeleteUser(uid) /\ Counted
    \/ \E data \in UserCreate, salt \in Salts : CreateUser(data, salt) /\ Counted
    \/ \E uid \in PresentedIds, data \in RaceUpdate :
          \E salt \in SaltDraws(data) : UpdateUser(uid, data, salt) /\ Counted

SpecReserved == (\E n \in 1..MaxUsers : InitRegistered(n)) /\ [][NextReserved]_vars

----------------------------------------------------------------------------
(* revoke_user_sessions next to other calls.  Its unit of work selects the *)
(* active sessions of the user and sets revoked_at on the rows it loaded;  *)
(* the flush and the commit follow later, and until then other units of    *)
(* work commit sessions of their own.  A caller keeps the record of the    *)
(* call it made last: the sessions of the user that existed at the select, *)
(* those the select returned and the time revoke() read.                   *)

BeginRevokeUserSessions(p, uid) ==
    /\ calls[p].pc \in {"idle", "revoked"}
    /\ calls' = [calls EXCEPT ![p] =
                    [pc |-> "revoke", user_id |-> uid,
                     before |-> {i \in DOMAIN sessions : sessions[i].user_id = uid},
                     found |-> get_user_sessions(sessions, uid, FALSE, FALSE, now),
                     at |-> now]]
    /\ UNCHANGED <<users, sessions, now, nextUserId, nextSessionId, tokensIssued, op>>

M_revoke_loaded_whole_user(ss, found, t) ==
    [i \in DOMAIN ss |->
        IF \E j \in found : ss[j].user_id = ss[i].user_id /\ ss[i].revoked_at = NoTime
        THEN revoke(ss[i], t) ELSE ss[i]]

\* The UPDATE the flush emits: revoked_at of the rows the select returned.
revoke_loaded(ss, found, t) ==
    [i \in DOMAIN ss |-> IF i \in found THEN revoke(ss[i], t) ELSE ss[i]]

\* session.flush(), return len(sessions), then the service's commit.
FinishRevokeUserSessions(p) ==
    /\ calls[p].pc = "revoke"
    /\ sessions' = revoke_loaded(sessions, calls[p].found, calls[p].at)
    /\ calls' = [calls EXCEPT ![p].pc = "revoked"]
    /\ op' = Call("revoke_user_sessions", calls[p].user_id,
                  Cardinality(calls[p].found), "", TRUE)
    /\ UNCHANGED <<users, now, nextUserId, nextSessionId, tokensIssued>>

NextRevoke ==
    \/ \E uid \in UserIds, hours \in ExpiresHours, token \in TokenDraws :
          CreateSession(uid, hours, token) /\ Counted
    \/ \E p \in Procs, uid \in UserIds : BeginRevokeUserSessions(p, uid) /\ CountedCall
    \/ \E p \in Procs : FinishRevokeUserSessions(p) /\ Returning
    \/ \E token \in TokenDraws, skew \in 0..MaxSkew :
          ValidateSession(token, skew) /\ Untracked
    \/ Tick /\ Untracked

SpecRevoke == InitUow /\ [][NextRevoke]_vars

----------------------------------------------------------------------------
(* The sessions of users whose accounts change: from the database a        *)
(* request finds, sessions are created, revoked, listed and validated      *)
(* while their owners are deactivated or soft-deleted and the clock runs.  *)

NextOwner ==
    \/ \E uid \in UserIds, hours \in ExpiresHours, token \in TokenDraws :
          CreateSession(uid, hours, token) /\ Counted
    \/ \E token \in TokenDraws : RevokeSession(token) /\ Counted
    \/ \E uid \in PresentedIds : DeactivateUser(uid) /\ Counted
    \/ \E uid \in PresentedIds : SoftDeleteUser(uid) /\ Counted
    \/ \E uid \in UserIds, include_expired \in BOOLEAN, include_revoked \in BOOLEAN :
          GetUserSessions(uid, include_expired, include_revoked) /\ Untracked
    \/ \E token \in TokenDraws, skew \in 0..MaxSkew :
          ValidateSession(token, skew) /\ Untracked
    \/ Tick /\ Untracked

SpecOwner == InitUow /\ [][NextOwner]_vars

----------------------------------------------------------------------------
(* The password hasher on its own: each caller keeps the hash string its   *)
(* last hash call returned; verify is called with any password and any     *)
(* string: a kept hash, the empty string, the hash of another scheme, a    *)
(* truncated argon2id string.                                              *)

HasherInputs == Candidates \cup {""}

Malformed ==
    {[alg |-> "bcrypt", salt |-> 1, digest |-> <<"Secret123", 1>>],
     [alg |-> "argon2id", salt |-> 1, digest |-> <<>>]}

Hashing == {p \in Procs : calls[p].pc = "hashed"}

KeptHashes == {calls[p].hashed : p \in Hashing}

\* The salt comes from the system's random source: 16 bytes, taken here as
\* never the salt of a hash string another caller keeps.
FreshSalts(p) == Salts \ {calls[q].hashed.salt : q \in Hashing \ {p}}

Hash(p, password, salt) ==
    /\ IF hash_error(password) # ""
       THEN /\ op' = Call("hash", password, None, hash_error(password), FALSE)
            /\ UNCHANGED calls
       ELSE /\ op' = Call("hash", password, hash(password, salt), "", FALSE)
            /\ calls' = [calls EXCEPT ![p] = [pc |-> "hashed", password |-> password,
                                              hashed |-> hash(password, salt)]]
    /\ UNCHANGED <<users, sessions, now, nextUserId, nextSessionId, tokensIssued,
                   everRevoked, revokedTokens, uow, callCount>>

Verify(password, hashed) ==
    /\ op' = Call("verify", [password |-> password, hashed |-> hashed],
                  verify_outcome(password, hashed).result,
                  verify_outcome(password, hashed).error, FALSE)
    /\ UNCHANGED <<users, sessions, now, nextUserId, nextSessionId, tokensIssued,
                   everRevoked, revokedTokens, calls, uow, callCount>>

NextHash ==
    \/ \E p \in Procs, password \in HasherInputs :
          \E salt \in FreshSalts(p) : Hash(p, password, salt)
    \/ \E password \in HasherInputs, hashed \in KeptHashes \cup Malformed \cup {EmptyHash} :
          Verify(password, hashed)

SpecHash == InitEmpty /\ [][NextHash]_vars

----------------------------------------------------------------------------
(* Properties *)

\* The hours a session was created with.
CreatedHours(s) == (s.expires_at - s.created_at) \div HourTicks

Succeeded(name) == op.name = name /\ op.error = ""

C2_RevokedIsTerminal ==
    [][\A i \in DOMAIN sessions :
          (is_revoked(sessions[i]) /\ i \in DOMAIN sessions')
          => (is_revoked(sessions'[i]) /\ ~is_valid(sessions'[i], now'))]_vars

\* revoke_user_sessions has run for a user one of whose sessions had been
\* revoked at an earlier time.
C2_Witness ==
    /\ Succeeded("revoke_user_sessions")
    /\ \E i \in DOMAIN sessions :
          /\ sessions[i].user_id = op.arg
          /\ is_revoked(sessions[i])
          /\ sessions[i].revoked_at < now

\* C3: a session created with expires_hours = 0 is expired at the instant
\* of its creation, and validate_session never returns it.
C3_ZeroHoursExpiredAtOnce ==
    /\ (Succeeded("create_session") /\ CreatedHours(sessions[op.result]) = 0)
       => is_expired(sessions[op.result], now)
    /\ (op.name = "validate_session" /\ op.result # None)
       => CreatedHours(sessions[op.result]) # 0

\* C4: cleanup_expired_sessions deletes exactly the rows that are expired or
\* revoked, keeps the others as they are and returns the number deleted;
\* with one active, one expired and one revoked session of a user it returns
\* 2 and get_user_sessions(include_expired, include_revoked) is the active one.
C4_CleanupDeletesExactlyStale ==
    [][op'.name = "cleanup_expired_sessions" =>
          LET stale == {i \in DOMAIN sessions :
                           is_expired(sessions[i], now) \/ is_revoked(sessions[i])}
              live == DOMAIN sessions \ stale
          IN  /\ op'.error = ""
              /\ DOMAIN sessions' = live
              /\ \A i \in live : sessions'[i] = sessions[i]
              /\ op'.result = Cardinality(stale)
              /\ \A uid \in UserIds :
                    LET mine == {i \in DOMAIN sessions : sessions[i].user_id = uid}
                        active == {i \in mine : is_valid(sessions[i], now)}
                        expired == {i \in mine : /\ is_expired(sessions[i], now)
                                                 /\ ~is_revoked(sessions[i])}
                        revoked == {i \in mine : /\ is_revoked(sessions[i])
                                                 /\ ~is_expired(sessions[i], now)}
                    IN  (/\ mine = DOMAIN sessions
                         /\ Cardinality(mine) = 3
                         /\ Cardinality(active) = 1
                         /\ Cardinality(expired) = 1
                         /\ Cardinality(revoked) = 1)
                        => /\ op'.result = 2
                           /\ get_user_sessions(sessions', uid, TRUE, TRUE, now')
                              = active]_vars

\* cleanup_expired_sessions has deleted two of three sessions and the one
\* it kept is valid.
C4_Witness ==
    /\ Succeeded("cleanup_expired_sessions")
    /\ op.result = 2
    /\ nextSessionId = 4
    /\ Cardinality(DOMAIN sessions) = 1
    /\ \A i \in DOMAIN sessions : is_valid(sessions[i], now)

\* C5 (as stated): a session row disappears only in cleanup_expired_sessions
\* and only when it is expired or revoked.
C5_OnlyCleanupDeletes ==
    [][\A i \in DOMAIN sessions \ DOMAIN sessions' :
          /\ op'.name = "cleanup_expired_sessions"
          /\ (is_expired(sessions[i], now) \/ is_revoked(sessions[i]))]_vars

\* C5 (amended): a session row disappears only in cleanup_expired_sessions
\* (and then it is expired or revoked), in the inherited delete(id) of the
\* session service called with its id, or in the delete(id) of the user
\* service called with its owner's id; the latter two also remove sessions
\* that are still active.
C5_OnlyCleanupOrDeleteRemoves ==
    [][\A i \in DOMAIN sessions \ DOMAIN sessions' :
          \/ /\ op'.name = "cleanup_expired_sessions"
             /\ (is_expired(sessions[i], now) \/ is_revoked(sessions[i]))
          \/ (op'.name = "delete_session" /\ op'.arg = i)
          \/ (op'.name = "delete_user" /\ op'.arg = sessions[i].user_id)]_vars

\* cleanup_expired_sessions has removed rows and left a valid session.
C5_Witness ==
    /\ Succeeded("cleanup_expired_sessions")
    /\ op.result >= 1
    /\ \E i \in DOMAIN sessions : is_valid(sessions[i], now)

\* C6: validate_session returns a session only if it carries the token and
\* is neither revoked nor expired when returned; it returns None for a token
\* that is unknown, expired or revoked; it raises nothing and changes no row.
C6_ValidateSound ==
    [][op'.name = "validate_session" =>
          LET rows == {i \in DOMAIN sessions : sessions[i].token = op'.arg}
          IN  /\ op'.error = ""
              /\ sessions' = sessions
              /\ users' = users
              /\ op'.result # None =>
                    /\ op'.result \in rows
                    /\ ~is_revoked(sessions'[op'.result])
                    /\ ~is_expired(sessions'[op'.result], now')
              /\ (\A i \in rows : is_expired(sessions[i], now) \/ is_revoked(sessions[i]))
                    => op'.result = None]_vars

\* validate_session has returned a session at the last instant before it
\* expires.
C6_Witness ==
    /\ Succeeded("validate_session")
    /\ op.result # None
    /\ sessions[op.result].expires_at = now

\* C7: at every instant the filtered query returns a session exactly when
\* is_valid holds for it.
C7_ActiveFilterAgreesWithIsValid ==
    \A i \in DOMAIN sessions :
        (get_active_session_by_token(sessions, sessions[i].token, now) = i)
        <=> is_valid(sessions[i], now)

\* C8: revoke_session on an unknown token returns false, changes no session
\* and does not commit; on a known token it sets that session's revoked_at,
\* commits and returns true, and changes no other session.
C8_RevokeSessionEffect ==
    [][op'.name = "revoke_session" =>
          LET rows == {i \in DOMAIN sessions : sessions[i].token = op'.arg}
          IN  /\ op'.error = ""
              /\ DOMAIN sessions' = DOMAIN sessions
              /\ \A i \in DOMAIN sessions \ rows : sessions'[i] = sessions[i]
              /\ IF rows = {}
                 THEN op'.result = FALSE /\ ~op'.commit
                 ELSE /\ op'.result = TRUE
                      /\ op'.commit
                      /\ \A i \in rows :
                            sessions'[i] = [sessions[i] EXCEPT !.revoked_at = now]]_vars

\* revoke_session has revoked one session and another session of the same
\* user is still valid.
C8_Witness ==
    /\ Succeeded("revoke_session")
    /\ op.result = TRUE
    /\ \E i, j \in DOMAIN sessions :
          /\ sessions[i].token = op.arg
          /\ sessions[i].revoked_at = now
          /\ j # i
          /\ sessions[j].user_id = sessions[i].user_id
          /\ is_valid(sessions[j], now)

\* C9: revoke_user_sessions revokes exactly the user's sessions that are
\* neither expired nor revoked when it runs, returns their number, and
\* leaves every other session as it is.
C9_RevokesExactlyActive ==
    [][op'.name = "revoke_user_sessions" =>
          LET active == {i \in DOMAIN sessions : /\ sessions[i].user_id = op'.arg
                                                 /\ is_valid(sessions[i], now)}
          IN  /\ DOMAIN sessions' = DOMAIN sessions
              /\ op'.result = Cardinality(active)
              /\ \A i \in active : is_revoked(sessions'[i])
              /\ \A i \in DOMAIN sessions \ active : sessions'[i] = sessions[i]]_vars

\* C10: create_user with the email of an existing row, or with a username
\* an existing row has, fails with DuplicateRecord and leaves the table as
\* it is.
C10_DuplicateUserRejected ==
    [][op'.name = "create_user" =>
          LET data == op'.arg
              taken == \/ \E i \in DOMAIN users : users[i].email = data.email
                       \/ /\ data.username # NoName
                          /\ \E i \in DOMAIN users : users[i].username = data.username
          IN  taken => (op'.error = "DuplicateRecord" /\ users' = users)]_vars

\* create_user has been refused for a username that is taken, with an email
\* that is free.
C10_Witness ==
    /\ op.name = "create_user"
    /\ op.error = "DuplicateRecord"
    /\ op.arg.username # NoName
    /\ \A i \in DOMAIN users : users[i].email # op.arg.email
    /\ \E i \in DOMAIN users : users[i].username = op.arg.username

\* C13: authenticate returns the user exactly when a user has the email, the
\* password verifies against its hash and the account is active; for an
\* unknown email, a wrong password and an inactive account alike it returns
\* None; it raises nothing and changes no row.
C13_AuthenticateIffActiveMatch ==
    [][op'.name = "authenticate" =>
          LET matching == {i \in DOMAIN users :
                              /\ users[i].email = op'.arg.email
                              /\ verify_password(op'.arg.password,
                                                 users[i].hashed_password)
                              /\ users[i].is_active}
          IN  /\ op'.error = ""
              /\ ~op'.commit
              /\ users' = users
              /\ sessions' = sessions
              /\ (op'.result # None) <=> (matching # {})
              /\ (op'.result # None) => (op'.result \in matching)]_vars

\* authenticate has answered None to the right password of an account that
\* is not active.
C13_Witness ==
    /\ op.name = "authenticate"
    /\ op.result = None
    /\ \E i \in DOMAIN users :
          /\ users[i].email = op.arg.email
          /\ verify_password(op.arg.password, users[i].hashed_password)
          /\ ~users[i].is_active

C19_TokensUnique ==
    [][/\ \A i, j \in DOMAIN sessions' :
             sessions'[i].token = sessions'[j].token => i = j
       /\ op'.name = "create_session" =>
             IF \E i \in DOMAIN sessions : sessions[i].token = op'.arg
             THEN op'.error # "" /\ sessions' = sessions
             ELSE \/ op'.error # "" /\ sessions' = sessions
                  \/ /\ op'.error = ""
                     /\ DOMAIN sessions' = DOMAIN sessions \cup {op'.result}
                     /\ op'.result \notin DOMAIN sessions
                     /\ sessions'[op'.result].token = op'.arg
                     /\ \A i \in DOMAIN sessions : sessions'[i] = sessions[i]]_vars

\* create_session has failed on a token that a session of an existing user
\* holds.
C19_Witness ==
    /\ op.name = "create_session"
    /\ op.error = "IntegrityError"
    /\ \E i \in DOMAIN sessions :
          /\ sessions[i].token = op.arg
          /\ sessions[i].user_id \in DOMAIN users
    /\ Cardinality(DOMAIN users) = MaxUsers

\* C18: get_multi called with a string order_by that names no field of the
\* entity fails with a configuration error and returns no rows.
C18_UnknownOrderByFails ==
    (op.name = "get_multi" /\ op.arg.order_by \notin UserColumns \cup {NoName})
    => (op.error # "" /\ Len(op.result) = 0)

\* The users that are not soft-deleted.
LiveUsers == {i \in DOMAIN users : users[i].deleted_at = NoTime}

\* C11: whatever the sequence and the interleaving of create_user,
\* update_user, activate_user, deactivate_user and soft_delete_user, no two
\* users that are not deleted have the same email, and no two have the same
\* username unless it is null.
C11_LiveUsersUnique ==
    \A i, j \in LiveUsers :
        i # j => /\ users[i].email # users[j].email
                 /\ users[i].username # NoName =>
                       users[i].username # users[j].username

\* An update_user that passed its existence checks has lost the race for
\* an email or username at its flush, and two users are not deleted.
C11_Witness ==
    /\ op.name = "update_user"
    /\ op.error = "IntegrityError"
    /\ Cardinality(LiveUsers) = 2

\* C12: of two create_user calls with the same email that have both passed
\* the existence check, one inserts its row and the other is answered with
\* DuplicateRecord and inserts nothing.
C12_RaceLoserGetsDuplicateRecord ==
    [][\A p \in Procs :
          (calls[p].pc = "insert" /\ calls'[p].pc = "idle")
          => IF email_exists(users, calls[p].data.email)
             THEN op'.error = "DuplicateRecord" /\ users' = users
             ELSE Cardinality(get_by_email_rows(users', calls[p].data.email)) <= 1]_vars

\* The mutating calls of the services and of the repositories, as the
\* request body makes them.
ServiceMutators ==
    {"create_session", "update", "delete", "revoke_session", "revoke_user_sessions",
     "cleanup_expired_sessions"}

RepositoryMutators ==
    {"repository.create", "repository.update", "repository.delete",
     "repository.delete_by_field", "repository.revoke_session",
     "repository.revoke_user_sessions", "repository.cleanup_expired_sessions"}

\* The call returned, and a revoke_session returned true.
ReturnedMutation(call) ==
    /\ call.name \in ServiceMutators
    /\ call.error = ""
    /\ call.name = "revoke_session" => call.result = TRUE

\* C15: when a mutating service call (create, update, delete, create_session,
\* a revoke_session that returns true, revoke_user_sessions,
\* cleanup_expired_sessions) returns, everything its session has flushed is
\* committed, and a rollback issued right after it changes neither the
\* committed tables nor what the session sees.
C15_ServiceCallsCommit ==
    [][/\ ReturnedMutation(op') =>
            /\ users' = uow'.users
            /\ sessions' = uow'.sessions
       /\ (ReturnedMutation(op) /\ op'.name = "rollback") =>
            /\ users' = users /\ sessions' = sessions
            /\ uow'.users = uow.users /\ uow'.sessions = uow.sessions]_vars

\* A rollback after a service call that followed a repository call in the
\* same unit of work: the revocation both made is still there.
C15_Witness ==
    /\ op.name = "rollback"
    /\ op.arg \in ServiceMutators
    /\ uow.pc = "body"
    /\ \E i \in DOMAIN sessions :
          sessions[i].revoked_at # NoTime /\ uow.sessions[i].revoked_at # NoTime
    /\ \E uid \in UserIds : ~users[uid].is_active

\* C16: no repository operation (create, update, delete, delete_by_field,
\* revoke_session, revoke_user_sessions, cleanup_expired_sessions) changes
\* the committed tables, and a rollback leaves the session with exactly the
\* committed tables, which are those of before the repository calls.
C16_RepositoryNeverCommits ==
    [][/\ op'.name \in RepositoryMutators =>
            /\ users' = users /\ sessions' = sessions
            /\ ~op'.commit
       /\ op'.name = "rollback" =>
            /\ users' = users /\ sessions' = sessions
            /\ uow'.users = users /\ uow'.sessions = sessions]_vars

\* A rollback that follows a repository call and had flushed changes to
\* discard.
C16_Witness ==
    /\ op.name = "rollback"
    /\ op.arg \in RepositoryMutators
    /\ op.result = TRUE
    /\ uow.users = users /\ uow.sessions = sessions

\* What get_db has called on a session it has closed.
ClosedWith(log) == uow.pc = "closed" /\ uow.log = log

Contains(log, step) == \E i \in 1..Len(log) : log[i] = step

\* C17: a unit of work whose body returned is committed and then closed; one
\* whose body raised is never committed, what it had flushed does not reach
\* the committed tables, the exception goes on to the caller, and after an
\* Exception get_db calls rollback before close; in both cases the session
\* is eventually closed.
C17_GetDbCommitsOrRollsBack ==
    /\ [][/\ uow.pc = "returned" =>
               /\ op'.name = "get_db.commit"
               /\ users' = uow.users /\ sessions' = uow.sessions
          /\ (uow.pc = "raised" /\ uow.kind = "Exception") =>
               /\ op'.name = "get_db.rollback"
               /\ op'.error = uow.kind
          /\ (uow.pc \in {"raised", "finally"} /\ uow.kind # "") =>
               /\ op'.name # "get_db.commit"
               /\ op'.error = uow.kind
               /\ users' = users /\ sessions' = sessions
          /\ uow'.pc = "closed" =>
               IF uow.kind = "" THEN uow'.log = <<"commit", "close">>
               ELSE ~Contains(uow'.log, "commit")]_vars
    /\ (uow.pc \in {"returned", "raised"}) ~> (uow.pc = "closed")

\* A session closed after its body raised with flushed changes pending.
C17_Witness ==
    /\ ClosedWith(<<"rollback", "close">>)
    /\ uow.kind = "Exception"
    /\ callCount > 0

C22_EmptyAndMalformedInputs ==
    /\ (op.name = "hash" /\ op.arg = "") => (op.error = "ValueError" /\ op.result = None)
    /\ op.name = "verify" =>
          /\ op.error = ""
          /\ (\/ op.arg.password = ""
              \/ op.arg.hashed = EmptyHash
              \/ op.arg.hashed \in Malformed) => op.result = FALSE

\* verify has been called with a non-empty password and a string that is not
\* a well-formed hash.
C22_Witness ==
    /\ op.name = "verify"
    /\ op.arg.password # ""
    /\ op.arg.hashed \in Malformed
    /\ op.result = FALSE

\* C23: get_user_sessions returns each row at most once, only rows of
\* user_id, newest first by created_at; without include_expired no row with
\* expires_at <= now, without include_revoked no row with revoked_at set,
\* and otherwise every row of the user: with both flags all of them.
C23_UserSessionsFilteredNewestFirst ==
    op.name = "get_user_sessions" =>
        LET rows == op.result
            listed == {rows[k] : k \in 1..Len(rows)}
            mine == {i \in DOMAIN sessions : sessions[i].user_id = op.arg.user_id}
        IN  /\ op.error = ""
            /\ Cardinality(listed) = Len(rows)
            /\ \A a, b \in 1..Len(rows) :
                  a < b => sessions[rows[a]].created_at >= sessions[rows[b]].created_at
            /\ listed =
                  {i \in mine :
                      /\ op.arg.include_expired \/ ~(sessions[i].expires_at <= now)
                      /\ op.arg.include_revoked \/ sessions[i].revoked_at = NoTime}
            /\ (op.arg.include_expired /\ op.arg.include_revoked) => listed = mine

\* A listing of two sessions created at different instants, the older of
\* them expired and listed because include_expired was given.
C23_Witness ==
    /\ op.name = "get_user_sessions"
    /\ op.arg.include_expired
    /\ Len(op.result) = 2
    /\ sessions[op.result[1]].created_at > sessions[op.result[2]].created_at
    /\ sessions[op.result[2]].expires_at <= now

\* C24: at every instant, cleanup_expired_sessions would delete a session
\* row exactly when get_active_session would not return it; no row, the
\* one with expires_at = now and no revoked_at included, is neither active
\* nor removable.
C24_CleanupComplementsActive ==
    \A i \in DOMAIN sessions :
        i \in cleanup_rows(sessions, now)
           <=> i \notin get_active_session_rows(sessions, sessions[i].token, now)

\* C25: revoke_session on the token of a session that is already revoked or
\* already expired returns true and sets revoked_at to the current time,
\* so revoked_at is the time of the latest revoke_session; a
\* revoke_user_sessions leaves the revoked_at of every session that is
\* already revoked as it was.
C25_RevokeAgainOverwritesRevokedAt ==
    /\ [](op.name = "revoke_session" =>
             \A i \in DOMAIN sessions :
                 sessions[i].token = op.arg
                    => /\ op.result = TRUE
                       /\ sessions[i].revoked_at = now)
    /\ [][op'.name = "revoke_user_sessions" =>
             \A i \in DOMAIN sessions :
                 is_revoked(sessions[i]) =>
                     sessions'[i].revoked_at = sessions[i].revoked_at]_vars

\* A revoke_session that returned true for a session that had expired
\* before the call.
C25_Witness ==
    /\ op.name = "revoke_session"
    /\ op.result = TRUE
    /\ \E i \in DOMAIN sessions : /\ sessions[i].token = op.arg
                                   /\ sessions[i].revoked_at = now
                                   /\ sessions[i].expires_at < now

\* C26: deactivate_user and soft_delete_user leave every session row as it
\* is, and validate_session returns the session of the token exactly when
\* that row's own expires_at and revoked_at make it active at the query and
\* valid at the check, whatever the state of the owning user: a session
\* that was valid before such a call is still returned after it.
C26_SessionsOutliveOwnerDeactivation ==
    [][/\ op'.name \in {"deactivate_user", "soft_delete_user"} => sessions' = sessions
       /\ op'.name = "validate_session" =>
            LET good == {i \in DOMAIN sessions :
                            /\ sessions[i].token = op'.arg
                            /\ sessions[i].expires_at > now
                            /\ sessions[i].revoked_at = NoTime
                            /\ ~(now' > sessions[i].expires_at)}
            IN  /\ op'.error = ""
                /\ IF good = {} THEN op'.result = None ELSE op'.result \in good]_vars

\* validate_session has returned the session of a user who is deactivated
\* or soft-deleted.
C26_Witness ==
    /\ op.name = "validate_session"
    /\ op.result # None
    /\ LET owner == users[sessions[op.result].user_id]
       IN  ~owner.is_active \/ owner.deleted_at # NoTime

\* C27: authenticate with the email and the correct password of a user who
\* is soft-deleted and still active returns that user; deleted_at is not
\* consulted, only is_active = false refuses the login.
C27_SoftDeletedUserStillAuthenticates ==
    op.name = "authenticate" =>
        \A i \in DOMAIN users :
            (/\ users[i].email = op.arg.email
             /\ verify_password(op.arg.password, users[i].hashed_password)
             /\ users[i].deleted_at # NoTime)
               => op.result = (IF users[i].is_active THEN i ELSE None)

\* authenticate has returned a soft-deleted user.
C27_Witness ==
    /\ op.name = "authenticate"
    /\ op.result # None
    /\ users[op.result].deleted_at # NoTime
    /\ users[op.result].is_active

\* The soft-deleted users other than uid that hold the value in the field.
DeletedHolders(field, value, uid) ==
    {i \in DOMAIN users \ {uid} : users[i].deleted_at # NoTime /\ users[i][field] = value}

\* C28: create_user with the email or the username of a soft-deleted user
\* fails with DuplicateRecord, and so does update_user of another user
\* that gives that email or username.
C28_SoftDeletedNamesStayReserved ==
    /\ (/\ op.name = "create_user"
        /\ \/ DeletedHolders("email", op.arg.email, None) # {}
           \/ /\ op.arg.username # NoName
              /\ DeletedHolders("username", op.arg.username, None) # {})
          => op.error = "DuplicateRecord"
    /\ (/\ op.name = "update_user"
        /\ op.error # "RecordNotFound"
        /\ \/ /\ Given(op.arg.data, "email")
              /\ DeletedHolders("email", op.arg.data.email, op.arg.id) # {}
           \/ /\ Given(op.arg.data, "username")
              /\ DeletedHolders("username", op.arg.data.username, op.arg.id) # {})
          => op.error = "DuplicateRecord"

\* A create_user refused for the email of a user who is soft-deleted, the
\* only user with that email.
C28_Witness ==
    /\ op.name = "create_user"
    /\ op.error = "DuplicateRecord"
    /\ DeletedHolders("email", op.arg.email, None) # {}
    /\ \A i \in DOMAIN users : users[i].username # op.arg.username

\* C29: an update_user that fails with DuplicateRecord persists nothing: the
\* stored row of the user is the same after whatever the unit of work does
\* next on other rows, a commit included.
C29_FailedUpdatePersistsNothing ==
    [][(/\ op.name = "update_user"
        /\ op.error = "DuplicateRecord"
        /\ uow.pc = "body"
        /\ op'.name \notin {"update_user", "update", "repository.update"})
          => users'[op.arg.id] = users[op.arg.id]]_vars

\* The callers whose revoke_user_sessions has returned.
Revoked == {p \in Procs : calls[p].pc = "revoked"}

\* C30: once revoke_user_sessions(u) has returned, validate_session accepts
\* no session of u that existed when the call started, and no such session
\* is active; a session of u committed between the select and the commit of
\* the call is left as it is and is not counted in the number returned.
C30_RevokeUserSessionsUnderConcurrency ==
    /\ [](\A p \in Revoked :
             \A i \in calls[p].before \cap DOMAIN sessions :
                 /\ ~(sessions[i].expires_at > now /\ sessions[i].revoked_at = NoTime)
                 /\ (op.name = "validate_session") => op.result # i)
    /\ [][\A p \in Procs :
             (calls[p].pc = "revoke" /\ calls'[p].pc = "revoked") =>
                 /\ op'.result = Cardinality(calls[p].found)
                 /\ calls[p].found \subseteq calls[p].before
                 /\ \A i \in DOMAIN sessions \ calls[p].before :
                       sessions'[i] = sessions[i]]_vars

\* revoke_user_sessions has returned 1 while the user has a second session,
\* committed after the select, that is still active.
C30_Witness ==
    /\ op.name = "revoke_user_sessions"
    /\ op.result = 1
    /\ \E p \in Revoked :
          /\ calls[p].user_id = op.arg
          /\ \E i \in DOMAIN sessions \ calls[p].before :
                /\ sessions[i].user_id = op.arg
                /\ sessions[i].expires_at > now
                /\ sessions[i].revoked_at = NoTime

====
